---- MODULE Spec2Model ----
(***************************************************************************)
(* hclconfig: dependency-ordered decoding of an HCL document.              *)
(*                                                                         *)
(* The module models resolve.go (buildDependencyGraph, addDependency,      *)
(* topoSort, findCycle) and the Load pass of the loader.  topoSort and     *)
(* findCycle are modelled step by step (one action per loop iteration),    *)
(* so that the Kahn queue, the DFS stack and the parent-pointer walk are   *)
(* part of the state.  Go map iteration order is a nondeterministic        *)
(* choice.                                                                 *)
(***************************************************************************)
EXTENDS Integers, Sequences, FiniteSets, TLC

VARIABLES
    caller,     \* "topoSort": the sorter is called directly; "Load": by Load
    parseOK,    \* whether the source parses and matches the schema
    doc,        \* the parsed document: entities in declaration order
    run,        \* 1 during the first pass, 2 during a second call of Load
    first,      \* the outcome of the first pass, once a second has started
    strictEnv,  \* the strictEnv argument of newBaseEvalContext
    osEnv,      \* the process environment read by os.LookupEnv
    userCtx,    \* the Variables of the caller's EvalContext, as the caller sees them
    wBlock,     \* wrapBlockDiags called directly: its block argument
    wDiags,     \* wrapBlockDiags called directly: its diags argument
    wrapped,    \* wrapBlockDiags called directly: the diagnostics returned
    allInfos,   \* []blockInfo handed to topoSort (the catalog)
    deps,       \* map key -> set of keys it depends on
    pc,         \* position of the pass
    keys,       \* topoSort: unique keys in first-seen order
    inDegree,   \* topoSort: key -> number of unmet cataloged dependencies
    queue,      \* topoSort: FIFO queue of ready keys
    sorted,     \* topoSort: output order built so far
    visited,    \* findCycle: node -> 0 unvisited, 1 in-stack, 2 done
    parent,     \* findCycle: DFS parent pointers
    stack,      \* findCycle: DFS call stack, frames [node, todo]
    ki,         \* findCycle: index of the outer loop over keys
    cycle,      \* findCycle: the cycle path under construction / returned
    cur,        \* findCycle: cursor of the parent-pointer walk
    sortedKeys, \* result of topoSort on success
    err,        \* error returned (kind "none" while there is none)
    pos,        \* Load: index into sortedKeys of the resolve loop
    evalCtx,    \* Load: evalCtx.Variables, name -> published value
    varValues,  \* Load: the cumulative var namespace, label -> value
    dst         \* Load: the caller's destination, slot -> value

passVars == <<caller, parseOK, doc, run, first, strictEnv, osEnv>>
wrapVars == <<wBlock, wDiags, wrapped>>
inputVars == <<passVars, userCtx, wrapVars>>
sortVars == <<keys, inDegree, queue, sorted>>
dfsVars == <<visited, parent, stack, ki, cycle, cur>>
loadVars == <<pos, evalCtx, varValues, dst>>
vars == <<caller, parseOK, doc, run, first, strictEnv, osEnv, userCtx, wBlock, wDiags, wrapped, allInfos, deps, pc, keys, inDegree, queue, sorted,
          visited, parent, stack, ki, cycle, cur, sortedKeys, err,
          pos, evalCtx, varValues, dst>>

\* ------------------------------------------------------------------ bounds
MaxInfos == 3   \* longest catalog handed directly to topoSort
MaxEdges == 3   \* most edges of a graph handed directly to topoSort
MaxRefs == 2    \* most traversals in the expressions of one document
MaxDepth == 1   \* deepest nesting of blocks inside a top-level block
NestDepth == 2  \* deepest nesting in the documents of nested blocks
MaxBlocks == 2  \* longest document that may repeat a block

\* ----------------------------------------------------------------- helpers
Range(s) == {s[i] : i \in 1..Len(s)}

\* the subsets of S with at most n elements
RECURSIVE SubsetsUpTo(_, _)
SubsetsUpTo(S, n) ==
    IF n = 0 THEN {{}}
    ELSE LET smaller == SubsetsUpTo(S, n - 1)
         IN smaller \cup {T \cup {x} : T \in smaller, x \in S}

RECURSIVE Reverse(_)
Reverse(s) == IF s = <<>> THEN <<>> ELSE Append(Reverse(Tail(s)), Head(s))

\* reading a Go map of sets: a missing entry is the nil map
Get(m, k) == IF k \in DOMAIN m THEN m[k] ELSE {}

\* m[k] = v on a Go map
Put(m, k, v) == [x \in DOMAIN m \cup {k} |-> IF x = k THEN v ELSE m[x]]

EmptyMap == [x \in {} |-> {}]

NoError == [kind |-> "none", key |-> "", detail |-> ""]
Error(kind, k) == [kind |-> kind, key |-> k, detail |-> ""]

\* blockInfo: typeName, label ("" when unlabeled), isAttr
Info(t, l, a) == [typeName |-> t, label |-> l, isAttr |-> a]

key(bi) == IF bi.label # "" THEN bi.typeName \o "." \o bi.label ELSE bi.typeName

\* ---------------------------------------------------------------- documents
\* An entity of the parsed document: a var declaration, a block of the user
\* schema or a top-level attribute.  refs are the traversals of the
\* expressions of its own attributes (Expr.Variables()); nested[d] are those
\* of its nested blocks at depth d; hasDefault tells whether a var block
\* carries the "default" attribute.  A traversal is its root name and the
\* name of its second step when that step is a TraverseAttr ("" otherwise).
\* a function call in an expression: env(name) or env_or(name, default)
NoCall == [fn |-> "", name |-> "", default |-> ""]
Call(fn, name, default) == [fn |-> fn, name |-> name, default |-> default]

Trav(root, seg) == [root |-> root, seg |-> seg]

Entity(kind, t, l) ==
    [kind |-> kind, typeName |-> t, label |-> l, refs |-> {}, nested |-> <<>>,
     hasDefault |-> TRUE, call |-> NoCall]

infoOf(e) == Info(e.typeName, e.label, e.kind = "attr")

AllRefs(e) == e.refs \cup UNION Range(e.nested)

\* ---------------------------------------------------- buildDependencyGraph
\* mutant of KnownTypes: the var blocks are left out of the known names
KnownTypes_UserOnly(blockInfos, attrs) ==
    {blockInfos[i].typeName : i \in {j \in 1..Len(blockInfos) : blockInfos[j].typeName # "var"}}
        \cup {a.typeName : a \in attrs}

\* lines 26-33: block types and attribute names
KnownTypes(blockInfos, attrs) ==
    {blockInfos[i].typeName : i \in 1..Len(blockInfos)} \cup {a.typeName : a \in attrs}

\* mutant of TargetKey: the label of the block info is not compared
TargetKey_AnyLabel(t, infos) ==
    LET hits == {i \in 1..Len(infos) : infos[i].typeName = t.root}
    IN IF t.seg # "" /\ hits # {}
       THEN key(infos[CHOOSE i \in hits : \A j \in hits : i <= j])
       ELSE t.root

\* lines 100-113: the key a traversal denotes
TargetKey(t, infos) ==
    LET hits == {i \in 1..Len(infos) :
                    infos[i].typeName = t.root /\ infos[i].label = t.seg}
    IN IF t.seg # "" /\ hits # {}
       THEN key(infos[CHOOSE i \in hits : \A j \in hits : i <= j])
       ELSE t.root

\* mutant of addDependency: no check against the self-dependency
addDependency_NoSelfCheck(d, fromKey, t, knownTypes, infos) ==
    IF t.root \notin knownTypes THEN d
    ELSE Put(d, fromKey, Get(d, fromKey) \cup {TargetKey(t, infos)})

\* mutant of addDependency: the root name is not looked up in knownTypes
addDependency_AnyRoot(d, fromKey, t, knownTypes, infos) ==
    LET targetKey == TargetKey(t, infos)
    IN IF targetKey # fromKey
       THEN Put(d, fromKey, Get(d, fromKey) \cup {targetKey})
       ELSE d

\* lines 90-122
addDependency(d, fromKey, t, knownTypes, infos) ==
    IF t.root \notin knownTypes THEN d
    ELSE LET targetKey == TargetKey(t, infos)
         IN IF targetKey # fromKey
            THEN Put(d, fromKey, Get(d, fromKey) \cup {targetKey})
            ELSE d

\* "for _, traversal := range attr.Expr.Variables()" over all attributes
RECURSIVE addAll(_, _, _, _, _)
addAll(d, fromKey, ts, knownTypes, infos) ==
    IF ts = {} THEN d
    ELSE LET t == CHOOSE x \in ts : TRUE
         IN addAll(addDependency(d, fromKey, t, knownTypes, infos), fromKey,
                   ts \ {t}, knownTypes, infos)

\* mutant of extractNestedBlockDeps: no recursion into deeper nested blocks
extractNestedBlockDeps_OneLevel(d, parentKey, nested, knownTypes, infos) ==
    IF nested = <<>> THEN d
    ELSE addAll(d, parentKey, Head(nested), knownTypes, infos)

\* lines 77-88: the nested blocks, level by level, all on parentKey
RECURSIVE extractNestedBlockDeps(_, _, _, _, _)
extractNestedBlockDeps(d, parentKey, nested, knownTypes, infos) ==
    IF nested = <<>> THEN d
    ELSE extractNestedBlockDeps(addAll(d, parentKey, Head(nested), knownTypes, infos),
                                parentKey, Tail(nested), knownTypes, infos)

\* lines 45-62: one block
RECURSIVE blockDeps(_, _, _, _, _)
blockDeps(d, blocks, i, knownTypes, infos) ==
    IF i > Len(blocks) THEN d
    ELSE LET k == key(infoOf(blocks[i]))
             d0 == Put(d, k, Get(d, k))
             d1 == addAll(d0, k, blocks[i].refs, knownTypes, infos)
             d2 == extractNestedBlockDeps(d1, k, blocks[i].nested, knownTypes, infos)
         IN blockDeps(d2, blocks, i + 1, knownTypes, infos)

\* mutant of attrDeps: the expressions of the attributes are not analysed
attrDeps_Skip(d, attrs, knownTypes, infos) == d

\* lines 65-72: the top-level attributes
RECURSIVE attrDeps(_, _, _, _)
attrDeps(d, attrs, knownTypes, infos) ==
    IF attrs = {} THEN d
    ELSE LET a == CHOOSE x \in attrs : TRUE
             d0 == Put(d, a.typeName, Get(d, a.typeName))
         IN attrDeps(addAll(d0, a.typeName, a.refs, knownTypes, infos),
                     attrs \ {a}, knownTypes, infos)

\* lines 25-75; attrInfos is allInfos' tail, the attributes in map order
buildDependencyGraph(blocks, attrInfos, attrs) ==
    LET blockInfos == [i \in 1..Len(blocks) |-> infoOf(blocks[i])]
        knownTypes == KnownTypes(blockInfos, attrs)
        infos == blockInfos \o attrInfos
    IN attrDeps(blockDeps(EmptyMap, blocks, 1, knownTypes, infos), attrs, knownTypes, infos)

\* ---------------------------------------------------------------- topoSort
\* mutant of UniqueKeys: the seen-set is never consulted
RECURSIVE UniqueKeys_NoSeen(_, _)
UniqueKeys_NoSeen(infos, acc) ==
    IF infos = <<>> THEN acc
    ELSE UniqueKeys_NoSeen(Tail(infos), Append(acc, key(Head(infos))))

\* "Build unique keys in order"
RECURSIVE UniqueKeys(_, _)
UniqueKeys(infos, acc) ==
    IF infos = <<>> THEN acc
    ELSE LET k == key(Head(infos))
         IN UniqueKeys(Tail(infos), IF k \in Range(acc) THEN acc ELSE Append(acc, k))

\* "Ensure all keys are in the deps map"
EnsureKeys(d, ks) == [k \in DOMAIN d \cup Range(ks) |-> Get(d, k)]

\* mutant of InDegrees: every dependency counts, cataloged or not
InDegrees_CountAll(d, ks) == [k \in Range(ks) |-> Cardinality(Get(d, k))]

\* "Calculate in-degrees": only nodes and deps that are cataloged count
InDegrees(d, ks) == [k \in Range(ks) |-> Cardinality({dep \in Get(d, k) : dep \in Range(ks)})]

\* lines 126-167: unique keys, in-degrees, seed the queue in catalog order
TopoSortEntry ==
    /\ pc = "topoSort"
    /\ LET ks == UniqueKeys(allInfos, <<>>)
           d == EnsureKeys(deps, ks)
           deg == InDegrees(d, ks)
       IN /\ keys' = ks
          /\ deps' = d
          /\ inDegree' = deg
          /\ queue' = SelectSeq(ks, LAMBDA k : deg[k] = 0)
    /\ sorted' = <<>>
    /\ pc' = "kahn"
    /\ UNCHANGED <<inputVars, allInfos, dfsVars, sortedKeys, err, loadVars>>

\* mutant of NewlyReady: a dependent is enqueued without waiting for zero
NewlyReady_NoZeroCheck(ks, d, deg, node) == SelectSeq(ks, LAMBDA k : node \in d[k])

\* lines 176-183: the dependents of node whose in-degree has reached zero
NewlyReady(ks, d, deg, node) == SelectSeq(ks, LAMBDA k : node \in d[k] /\ deg[k] = 0)

\* lines 170-184: one iteration of the Kahn loop
KahnStep ==
    /\ pc = "kahn"
    /\ queue # <<>>
    /\ LET node == Head(queue)
           deg == [k \in DOMAIN inDegree |->
                      IF node \in deps[k] THEN inDegree[k] - 1 ELSE inDegree[k]]
       IN /\ sorted' = Append(sorted, node)
          /\ inDegree' = deg
          /\ queue' = Tail(queue) \o NewlyReady(keys, deps, deg, node)
    /\ UNCHANGED <<inputVars, allInfos, deps, pc, keys, dfsVars, sortedKeys, err, loadVars>>

\* ------------------------------------------------------------------ values
\* A cty value is a set of <<name, value>> pairs: an object's attributes, a
\* label map's entries, and for an evaluated expression a literal part that
\* names the entity together with what each traversal read.
SeedVal == {<<"=seed", {}>>}

\* the Variables of the caller's EvalContext (WithEvalContext)
UserVariables == [x \in {"seed"} |-> SeedVal]

\* newBaseEvalContext: a fresh map holding a copy of the caller's variables
newBaseEvalContext(userVars) == [k \in DOMAIN userVars |-> userVars[k]]

\* mutant of CallerView: the context of the pass is the caller's own map
CallerView_Alias(userVars, env) == env

\* part_003 lines 16-17: the Variables of the pass are a map of their own, so
\* the caller's map holds after an assignment to env what it held before
CallerView(userVars, env) == userVars

\* cty.ObjectVal of a Go map
ObjectVal(m) == {<<l, m[l]>> : l \in DOMAIN m}

TravName(t) == IF t.seg # "" THEN t.root \o "." \o t.seg ELSE t.root

\* a traversal evaluates when its root is a variable of the context and, for
\* an attribute step, the object has that attribute
CanRead(env, t) ==
    /\ t.root \in DOMAIN env
    /\ t.seg # "" => \E p \in env[t.root] : p[1] = t.seg

Read(env, t) ==
    IF t.seg = "" THEN env[t.root]
    ELSE (CHOOSE p \in env[t.root] : p[1] = t.seg)[2]

\* Expr.Value(evalCtx) over the expressions that hold the traversals ts
CanEval(env, ts) == \A t \in ts : CanRead(env, t)
Value(k, env, ts) == {<<"=" \o k, {}>>} \cup {<<TravName(t), Read(env, t)>> : t \in ts}

\* ----------------------------------------------------------- env and env_or
EnvNames == {"A", "B"}
EnvValues == {"", "v"}
Fallbacks == {"", "d"}
\* an environment: each name is unset or set to a value
Unset == [ok |-> FALSE, val |-> ""]
Environments == [EnvNames -> {Unset} \cup {[ok |-> TRUE, val |-> v] : v \in EnvValues}]
NoEnv == [n \in EnvNames |-> Unset]

\* no WithStrictEnv option and an empty process environment
DefaultEnv == strictEnv = FALSE /\ osEnv = NoEnv

\* os.LookupEnv
LookupEnv(name) == osEnv[name]

\* cty.StringVal
StringVal(str) == {<<"\"" \o str, {}>>}

\* mutant of envFunction: the strict flag is not looked at
envFunction_Lenient(strict, name) ==
    [ok |-> TRUE, val |-> StringVal(LookupEnv(name).val), detail |-> ""]

\* part_003 lines 36-54
envFunction(strict, name) ==
    LET r == LookupEnv(name)
    IN IF ~r.ok /\ strict
       THEN [ok |-> FALSE, val |-> {}, detail |-> name]
       ELSE [ok |-> TRUE, val |-> StringVal(r.val), detail |-> ""]

\* mutant of envOrFunction: an empty value counts as unset
envOrFunction_EmptyIsUnset(name, default) ==
    LET r == LookupEnv(name)
    IN IF ~r.ok \/ r.val = ""
       THEN [ok |-> TRUE, val |-> StringVal(default), detail |-> ""]
       ELSE [ok |-> TRUE, val |-> StringVal(r.val), detail |-> ""]

\* part_003 lines 56-78
envOrFunction(name, default) ==
    LET r == LookupEnv(name)
    IN IF ~r.ok
       THEN [ok |-> TRUE, val |-> StringVal(default), detail |-> ""]
       ELSE [ok |-> TRUE, val |-> StringVal(r.val), detail |-> ""]

\* the function call of an expression, through the Functions of the context
\* (part_003 lines 18-21)
callValue(c) ==
    IF c.fn = "env" THEN envFunction(strictEnv, c.name)
    ELSE envOrFunction(c.name, c.default)
CallOK(e) == e.call = NoCall \/ callValue(e.call).ok
CallPairs(e) == IF e.call = NoCall THEN {} ELSE {<<"()", callValue(e.call).val>>}
\* the diagnostics of a failed evaluation of entity e with key k
EvalError(e, k) ==
    IF CallOK(e) THEN Error("diagnostics", k)
    ELSE [kind |-> "diagnostics", key |-> k, detail |-> callValue(e.call).detail]

\* mutant of ReturnFromTopoSort: Load goes on to the resolve loop whatever
\* topoSort returned
ReturnFromTopoSort_IgnoreError(order, e) ==
    /\ sortedKeys' = order
    /\ err' = e
    /\ IF caller = "Load"
       THEN /\ pc' = "resolve"
            /\ pos' = 1
            /\ evalCtx' = newBaseEvalContext(userCtx)
            /\ varValues' = EmptyMap
            /\ UNCHANGED dst
       ELSE /\ pc' = "returned"
            /\ UNCHANGED loadVars

\* The return of topoSort.  Called directly, the result is handed back; called
\* by Load (lines 111-174), an error is returned to Load's caller and an order
\* starts the resolve loop over a fresh evaluation context.
ReturnFromTopoSort(order, e) ==
    /\ sortedKeys' = order
    /\ err' = e
    /\ IF caller = "Load"
       THEN IF e.kind = "none"
            THEN /\ pc' = "resolve"
                 /\ pos' = 1
                 /\ evalCtx' = newBaseEvalContext(userCtx)
                 /\ varValues' = EmptyMap
                 /\ UNCHANGED dst
            ELSE /\ pc' = "failed"
                 /\ UNCHANGED loadVars
       ELSE /\ pc' = "returned"
            /\ UNCHANGED loadVars

\* lines 186-192: the queue is empty
KahnExit ==
    /\ pc = "kahn"
    /\ queue = <<>>
    /\ IF Len(sorted) # Len(keys)
       THEN \* findCycle(keys, deps) starts: nothing visited, no parents
            /\ pc' = "findCycle"
            /\ visited' = EmptyMap
            /\ parent' = EmptyMap
            /\ stack' = <<>>
            /\ ki' = 1
            /\ cycle' = <<>>
            /\ cur' = ""
            /\ UNCHANGED <<sortedKeys, err, loadVars>>
       ELSE /\ ReturnFromTopoSort(sorted, NoError)
            /\ UNCHANGED dfsVars
    /\ UNCHANGED <<inputVars, allInfos, deps, sortVars>>

\* --------------------------------------------------------------- findCycle
\* mutant of Vis: a node in the stack is taken for a node that is done
Vis_NoInStack(v, n) == IF n \in DOMAIN v THEN 2 ELSE 0

\* visited[n]: the zero value 0 when n was never marked
Vis(v, n) == IF n \in DOMAIN v THEN v[n] ELSE 0

\* parent[cur]: the zero value "" when cur has no parent
ParentOf(p, n) == IF n \in DOMAIN p THEN p[n] ELSE ""

Top(st) == st[Len(st)]
\* mutant of Pop: the frame of the returning call stays on the stack
Pop_Keep(st) == st

\* the stack after the return of the innermost dfs call
Pop(st) == SubSeq(st, 1, Len(st) - 1)
Frame(n, todo) == [node |-> n, todo |-> todo]

\* lines 234-241: the loop over keys calls dfs on the next unvisited key, or
\* gives up with the placeholder path
FindCycleNext ==
    /\ pc = "findCycle"
    /\ stack = <<>>
    /\ LET unvisited == {j \in ki..Len(keys) : Vis(visited, keys[j]) = 0}
       IN IF unvisited # {}
          THEN LET j == CHOOSE x \in unvisited : \A y \in unvisited : x <= y
                   k == keys[j]
               IN /\ visited' = Put(visited, k, 1)
                  /\ stack' = <<Frame(k, Get(deps, k))>>
                  /\ ki' = j + 1
                  /\ UNCHANGED <<pc, cycle, sortedKeys, err, loadVars>>
          ELSE /\ cycle' = <<"unknown cycle">>
               /\ ReturnFromTopoSort(<<>>, Error("cycle", ""))
               /\ UNCHANGED <<visited, stack, ki>>
    /\ UNCHANGED <<inputVars, allInfos, deps, sortVars, parent, cur>>

\* lines 204-229: one iteration of "for dep := range deps[node]" in the
\* innermost dfs call; the map is ranged over in any order
DfsVisit ==
    /\ pc = "findCycle"
    /\ stack # <<>>
    /\ \E dep \in Top(stack).todo :
          LET node == Top(stack).node
              rest == [stack EXCEPT ![Len(stack)].todo = @ \ {dep}]
          IN IF Vis(visited, dep) = 1
             THEN \* found: cycle = {dep, node}, walk the parents from node
                  /\ cycle' = <<dep, node>>
                  /\ cur' = node
                  /\ pc' = "walk"
                  /\ UNCHANGED <<visited, parent, stack>>
             ELSE IF Vis(visited, dep) = 0
             THEN /\ parent' = Put(parent, dep, node)
                  /\ visited' = Put(visited, dep, 1)
                  /\ stack' = Append(rest, Frame(dep, Get(deps, dep)))
                  /\ UNCHANGED <<cycle, cur, pc>>
             ELSE /\ stack' = rest
                  /\ UNCHANGED <<visited, parent, cycle, cur, pc>>
    /\ UNCHANGED <<inputVars, allInfos, deps, sortVars, ki, sortedKeys, err, loadVars>>

\* lines 230-231: the range is exhausted, the node is done, dfs returns false
DfsReturn ==
    /\ pc = "findCycle"
    /\ stack # <<>>
    /\ Top(stack).todo = {}
    /\ visited' = Put(visited, Top(stack).node, 2)
    /\ stack' = Pop(stack)
    /\ UNCHANGED <<inputVars, allInfos, deps, sortVars, pc, parent, ki, cycle, cur,
                   sortedKeys, err, loadVars>>

\* lines 209-215: one iteration of "for cur != dep"; dep is cycle[1]
WalkStep ==
    /\ pc = "walk"
    /\ cur # cycle[1]
    /\ LET nxt == ParentOf(parent, cur)
       IN /\ cur' = nxt
          /\ cycle' = IF nxt = cycle[1] THEN cycle ELSE Append(cycle, nxt)
    /\ UNCHANGED <<inputVars, allInfos, deps, sortVars, pc, visited, parent, stack, ki,
                   sortedKeys, err, loadVars>>

\* lines 216-221 and 188-189: reverse, append the closing node, CycleError
WalkFinish ==
    /\ pc = "walk"
    /\ cur = cycle[1]
    /\ cycle' = Append(Reverse(cycle), cycle[1])
    /\ ReturnFromTopoSort(<<>>, Error("cycle", ""))
    /\ UNCHANGED <<inputVars, allInfos, deps, sortVars, visited, parent, stack, ki, cur>>

\* -------------------------------------------------------------------- Load
\* the destination type: its block slots (fieldInfo) and attribute slots
BlockFields ==
    [t \in {"app", "opt", "svc"} |->
        [isSlice |-> t = "svc", isPtr |-> t = "opt"]]
AttrFields == {"p", "q", "svc", "var"}
\* attrFieldMap: attribute name -> the struct field it is written to; a field
\* for an attribute named like a block type is a field of its own
attrFieldMap == [k \in AttrFields |-> IF k \in DOMAIN BlockFields THEN "@" \o k ELSE k]
AttrSlots == {attrFieldMap[k] : k \in AttrFields}

\* a decoded Go struct: its label field and its other fields
Struct(l, fields) == [label |-> l, fields |-> fields]

\* the zero value of every slot of the destination
ZeroDst ==
    [s \in DOMAIN BlockFields \cup AttrSlots |->
        IF s \in AttrSlots THEN {}
        ELSE IF BlockFields[s].isSlice \/ BlockFields[s].isPtr THEN <<>>
        ELSE Struct("", {})]

\* structFieldsToCtyObject: labels are not added to the eval context
structFieldsToCtyObject(st) == st.fields
getLabelValue(st) == st.label

\* sliceToCtyValue: a tuple, element i under its index
sliceToCtyValue(sl) == {<<ToString(i), structFieldsToCtyObject(sl[i])>> : i \in 1..Len(sl)}

\* lines 390-409: the label map is rebuilt from the whole slice, later
\* elements overwriting earlier ones that carry the same label
RECURSIVE labelMapOf(_, _)
labelMapOf(sl, m) ==
    IF sl = <<>> THEN m
    ELSE labelMapOf(Tail(sl),
                    IF getLabelValue(Head(sl)) = "" THEN m
                    ELSE Put(m, getLabelValue(Head(sl)), structFieldsToCtyObject(Head(sl))))

addLabeledSliceToEvalCtx(env, typeName, sl) ==
    LET labelMap == labelMapOf(sl, EmptyMap)
    IN IF DOMAIN labelMap # {} THEN Put(env, typeName, ObjectVal(labelMap)) ELSE env

\* lines 73-101 and 159-172: the var blocks, the user blocks, the attributes
varBlocks == SelectSeq(doc, LAMBDA e : e.kind = "var")
userBlocks == SelectSeq(doc, LAMBDA e : e.kind = "block")
attributes == {doc[i] : i \in {j \in 1..Len(doc) : doc[j].kind = "attr"}}
attrNames == {a.typeName : a \in attributes}
attrOf(k) == CHOOSE a \in attributes : a.typeName = k

hasVarBlock(k) == \E i \in 1..Len(varBlocks) : key(infoOf(varBlocks[i])) = k
\* the map keeps the last block of a key
varBlocksByKey(k) ==
    LET is == {i \in 1..Len(varBlocks) : key(infoOf(varBlocks[i])) = k}
    IN varBlocks[CHOOSE i \in is : \A j \in is : j <= i]
\* mutant of blocksByKey: the blocks are grouped by type, not by key
blocksByKey_ByType(k) ==
    SelectSeq(userBlocks,
              LAMBDA e : \E f \in Range(userBlocks) : key(infoOf(f)) = k /\ f.typeName = e.typeName)

blocksByKey(k) == SelectSeq(userBlocks, LAMBDA e : key(infoOf(e)) = k)

\* the orders in which a Go map of the attributes can be ranged over
Orderings(S) ==
    {f \in [1..Cardinality(S) -> S] : \A i, j \in 1..Cardinality(S) : f[i] = f[j] => i = j}

\* gohcl.DecodeBody of one block into a struct
CanDecode(e, env) == CanEval(env, AllRefs(e)) /\ CallOK(e)
Decoded(e, env) ==
    Struct(e.label, Value(key(infoOf(e)), env, AllRefs(e)) \cup CallPairs(e))
\* what a failed decode may have left in a struct it decodes in place: the
\* fields whose expressions evaluated
PartlyDecoded(e, env) ==
    Struct(e.label, Value(key(infoOf(e)), env, {t \in AllRefs(e) : CanRead(env, t)}))

\* mutant of decodeSliceBlocks: a decoded block is put in front of the slice
RECURSIVE decodeSliceBlocks_Prepend(_, _, _)
decodeSliceBlocks_Prepend(fieldVal, blocks, env) ==
    IF blocks = <<>> THEN [ok |-> TRUE, val |-> fieldVal]
    ELSE IF ~CanDecode(Head(blocks), env) THEN [ok |-> FALSE, val |-> fieldVal]
    ELSE decodeSliceBlocks_Prepend(<<Decoded(Head(blocks), env)>> \o fieldVal, Tail(blocks), env)

\* lines 320-344: blocks are appended one by one until one fails
RECURSIVE decodeSliceBlocks(_, _, _)
decodeSliceBlocks(fieldVal, blocks, env) ==
    IF blocks = <<>> THEN [ok |-> TRUE, val |-> fieldVal]
    ELSE IF ~CanDecode(Head(blocks), env) THEN [ok |-> FALSE, val |-> fieldVal]
    ELSE decodeSliceBlocks(Append(fieldVal, Decoded(Head(blocks), env)), Tail(blocks), env)

\* the block at which decodeSliceBlocks returns its error
firstFailing(blocks, env) ==
    blocks[CHOOSE i \in 1..Len(blocks) :
              ~CanDecode(blocks[i], env) /\ \A j \in 1..(i - 1) : CanDecode(blocks[j], env)]

\* mutant of Fail: the error is recorded and the loop goes on
Fail_Continue(e) ==
    /\ pc' = pc
    /\ err' = e
    /\ pos' = pos + 1

\* "return err": the pass stops where it is
Fail(e) ==
    /\ pc' = "failed"
    /\ err' = e
    /\ pos' = pos

\* lines 39-50: the source does not parse
LoadParseError ==
    /\ pc = "Load"
    /\ ~parseOK
    /\ Fail(Error("parse", ""))
    /\ UNCHANGED <<inputVars, allInfos, deps, sortVars, dfsVars, sortedKeys, evalCtx, varValues, dst>>

\* lines 52-111: catalog (var blocks, user blocks, then the attributes in map
\* order), dependency graph, call of topoSort
LoadStart ==
    /\ pc = "Load"
    /\ parseOK
    /\ \E attrOrder \in Orderings(attributes) :
          LET allBlocks == varBlocks \o userBlocks
              allBlockInfos == [i \in 1..Len(allBlocks) |-> infoOf(allBlocks[i])]
              attrInfos == [i \in 1..Len(attrOrder) |-> infoOf(attrOrder[i])]
          IN /\ deps' = buildDependencyGraph(allBlocks, attrInfos, attributes)
             /\ allInfos' = allBlockInfos \o attrInfos
    /\ pc' = "topoSort"
    /\ UNCHANGED <<inputVars, sortVars, dfsVars, sortedKeys, err, loadVars>>

\* mutant of defaultAttr: a var block without a default counts as having one
defaultAttr_Always(varBlock) == TRUE

\* lines 183-187: attrs["default"] is present
defaultAttr(varBlock) == varBlock.hasDefault

\* mutant of insertVar: the namespace is started afresh for each var
insertVar_Fresh(vals, label, val) == Put(EmptyMap, label, val)

\* line 192: varValues[varBlock.Labels[0]] = val
insertVar(vals, label, val) == Put(vals, label, val)

\* lines 178-195: the key of a var block
ResolveVar ==
    /\ pc = "resolve"
    /\ pos <= Len(sortedKeys)
    /\ hasVarBlock(sortedKeys[pos])
    /\ LET k == sortedKeys[pos]
           varBlock == varBlocksByKey(k)
       IN IF ~defaultAttr(varBlock)
          THEN /\ Fail(Error("missing default", k))
               /\ UNCHANGED <<evalCtx, varValues, dst>>
          ELSE IF ~(CanEval(evalCtx, varBlock.refs) /\ CallOK(varBlock))
          THEN /\ Fail(EvalError(varBlock, k))
               /\ UNCHANGED <<evalCtx, varValues, dst>>
          ELSE LET val == Value(k, evalCtx, varBlock.refs) \cup CallPairs(varBlock)
                   vv == insertVar(varValues, varBlock.label, val)
               IN /\ varValues' = vv
                  /\ evalCtx' = Put(evalCtx, "var", ObjectVal(vv))
                  /\ pos' = pos + 1
                  /\ UNCHANGED <<pc, err, dst>>
    /\ userCtx' = CallerView(userCtx, evalCtx')
    /\ UNCHANGED <<passVars, wrapVars, allInfos, deps, sortVars, dfsVars, sortedKeys>>

\* lines 198-212: the key of a top-level attribute
ResolveAttr ==
    /\ pc = "resolve"
    /\ pos <= Len(sortedKeys)
    /\ ~hasVarBlock(sortedKeys[pos])
    /\ sortedKeys[pos] \in attrNames
    /\ LET k == sortedKeys[pos]
           attr == attrOf(k)
       IN IF ~(CanEval(evalCtx, attr.refs) /\ CallOK(attr))
          THEN /\ Fail(EvalError(attr, k))
               /\ UNCHANGED <<evalCtx, varValues, dst>>
          ELSE LET val == Value(k, evalCtx, attr.refs) \cup CallPairs(attr)
               IN /\ dst' = IF k \in DOMAIN attrFieldMap THEN Put(dst, attrFieldMap[k], val) ELSE dst
                  /\ evalCtx' = Put(evalCtx, k, val)
                  /\ pos' = pos + 1
                  /\ UNCHANGED <<pc, err, varValues>>
    /\ userCtx' = CallerView(userCtx, evalCtx')
    /\ UNCHANGED <<passVars, wrapVars, allInfos, deps, sortVars, dfsVars, sortedKeys>>

\* lines 215-272: the key of one or more user blocks
ResolveBlock ==
    /\ pc = "resolve"
    /\ pos <= Len(sortedKeys)
    /\ ~hasVarBlock(sortedKeys[pos])
    /\ sortedKeys[pos] \notin attrNames
    /\ LET k == sortedKeys[pos]
           blocks == blocksByKey(k)
       IN IF blocks = <<>> \/ blocks[1].typeName \notin DOMAIN BlockFields
          THEN /\ pos' = pos + 1
               /\ UNCHANGED <<pc, err, evalCtx, varValues, dst>>
          ELSE LET typeName == blocks[1].typeName
                   fi == BlockFields[typeName]
               IN IF fi.isSlice
                  THEN LET r == decodeSliceBlocks(dst[typeName], blocks, evalCtx)
                       IN /\ dst' = Put(dst, typeName, r.val)
                          /\ IF ~r.ok
                             THEN /\ Fail(EvalError(firstFailing(blocks, evalCtx), k))
                                  /\ UNCHANGED <<evalCtx, varValues>>
                             ELSE /\ evalCtx' =
                                       IF blocks[1].label # ""
                                       THEN addLabeledSliceToEvalCtx(evalCtx, typeName, r.val)
                                       ELSE Put(evalCtx, typeName, sliceToCtyValue(r.val))
                                  /\ pos' = pos + 1
                                  /\ UNCHANGED <<pc, err, varValues>>
                  ELSE IF ~CanDecode(blocks[1], evalCtx)
                  THEN /\ Fail(EvalError(blocks[1], k))
                       /\ \/ UNCHANGED dst
                          \/ /\ ~fi.isPtr
                             /\ dst' = Put(dst, typeName, PartlyDecoded(blocks[1], evalCtx))
                       /\ UNCHANGED <<evalCtx, varValues>>
                  ELSE LET st == Decoded(blocks[1], evalCtx)
                       IN /\ dst' = Put(dst, typeName, IF fi.isPtr THEN <<st>> ELSE st)
                          /\ evalCtx' = Put(evalCtx, typeName, structFieldsToCtyObject(st))
                          /\ pos' = pos + 1
                          /\ UNCHANGED <<pc, err, varValues>>
    /\ userCtx' = CallerView(userCtx, evalCtx')
    /\ UNCHANGED <<passVars, wrapVars, allInfos, deps, sortVars, dfsVars, sortedKeys>>

\* line 275: every key is resolved
LoadReturn ==
    /\ pc = "resolve"
    /\ pos > Len(sortedKeys)
    /\ pc' = "done"
    /\ UNCHANGED <<inputVars, allInfos, deps, sortVars, dfsVars, sortedKeys, err, loadVars>>

\* ------------------------------------------------------------ wrapBlockDiags
\* A source range is a file and a line; NoRange is a nil Subject.
FileName == "config.hcl"
Rng(line) == [file |-> FileName, line |-> line]
NoRange == [file |-> "", line |-> 0]

\* an hcl.Block: type, first label ("" without labels), DefRange of the header
HclBlock(t, l, line) == [typeName |-> t, label |-> l, defRange |-> Rng(line)]
NoBlock == [typeName |-> "", label |-> "", defRange |-> NoRange]

\* an hcl.Diagnostic: its Subject and its Detail
Diag(subject, detail) == [subject |-> subject, detail |-> detail]

\* no direct call of wrapBlockDiags
NoWrap == wBlock = NoBlock /\ wDiags = <<>> /\ wrapped = <<>>

\* part_002 lines 362-388.  The Detail of a wrapped diagnostic is "In <type>
\* <label> block", then " defined at <file>:<line>" of the diagnostic's own
\* Subject when it has one and " at <file>:<line>" of the block's DefRange
\* otherwise, then the original Detail: note holds these parts.
wrapBlockDiags(block, diags) ==
    [i \in 1..Len(diags) |->
        LET d == diags[i]
        IN [subject |-> IF d.subject = NoRange THEN block.defRange ELSE d.subject,
            note |-> [typeName |-> block.typeName,
                      label |-> block.label,
                      how |-> IF d.subject # NoRange THEN "defined at" ELSE "at",
                      loc |-> IF d.subject # NoRange THEN d.subject ELSE block.defRange],
            detail |-> d.detail]]

\* wrapBlockDiags called on a block and the diagnostics of its decoding
WrapBlockDiags ==
    /\ pc = "wrapBlockDiags"
    /\ wrapped' = wrapBlockDiags(wBlock, wDiags)
    /\ err' = Error("diagnostics", key(Info(wBlock.typeName, wBlock.label, FALSE)))
    /\ pc' = "returned"
    /\ UNCHANGED <<passVars, userCtx, wBlock, wDiags, allInfos, deps, sortVars, dfsVars,
                   sortedKeys, loadVars>>

\* ------------------------------------------- topoSort called on its own
NoFirst == [doc |-> <<>>, pc |-> "", err |-> NoError, dst |-> ZeroDst, cycle |-> <<>>,
            sortedKeys |-> <<>>, deps |-> EmptyMap]

\* the catalogs and graphs of the unit tests: labeled and unlabeled infos,
\* repeated keys, and "svc", a target that is no catalog key
SortInfos == {Info("app", "", FALSE), Info("svc", "x", FALSE), Info("svc", "y", FALSE)}
SortSources == {key(bi) : bi \in SortInfos}
SortTargets == SortSources \cup {"svc"}

Catalogs == UNION {[1..n -> SortInfos] : n \in 0..MaxInfos}

GraphOf(edges) == [k \in {e[1] : e \in edges} |-> {e[2] : e \in {x \in edges : x[1] = k}}]

InitSort ==
    /\ caller = "topoSort"
    /\ parseOK = TRUE
    /\ doc = <<>>
    /\ run = 1 /\ first = NoFirst
    /\ userCtx = UserVariables /\ NoWrap
    /\ DefaultEnv
    /\ allInfos \in Catalogs
    /\ deps \in {GraphOf(es) : es \in SubsetsUpTo(SortSources \X SortTargets, MaxEdges)}
    /\ pc = "topoSort"
    /\ keys = <<>> /\ inDegree = EmptyMap /\ queue = <<>> /\ sorted = <<>>
    /\ visited = EmptyMap /\ parent = EmptyMap /\ stack = <<>> /\ ki = 1
    /\ cycle = <<>> /\ cur = ""
    /\ sortedKeys = <<>> /\ err = NoError
    /\ pos = 1 /\ evalCtx = EmptyMap /\ varValues = EmptyMap /\ dst = ZeroDst

NextSort ==
    \/ TopoSortEntry
    \/ KahnStep
    \/ KahnExit
    \/ FindCycleNext
    \/ DfsVisit
    \/ DfsReturn
    \/ WalkStep
    \/ WalkFinish

SpecSort == InitSort /\ [][NextSort]_vars

\* topoSort called on a catalog without repeated infos, and running on: it is
\* a sequential function, a step that can be taken is taken
InitSortLive ==
    /\ InitSort
    /\ \A i, j \in 1..Len(allInfos) : allInfos[i] = allInfos[j] => i = j

SpecSortLive == InitSortLive /\ [][NextSort]_vars /\ WF_vars(NextSort)

\* ------------------------------------------------------- Load on a document
\* The documents are drawn from four vocabularies: labeled blocks, repeated blocks, var
\* declarations and top-level attributes, each with a block that can refer to
\* them.  A traversal may name an entity the document does not declare (an
\* undefined name); "seed" is a caller-seeded variable; "svc" and "var"
\* without a label segment stand for the whole namespace (a bare root or an
\* index step).
Vocabularies ==
    { [ents |-> {Entity("block", "app", ""), Entity("block", "svc", "x"),
                 Entity("block", "svc", "y")}, repeat |-> FALSE,
       travs |-> {Trav("app", ""), Trav("svc", ""), Trav("svc", "x"), Trav("svc", "y")}],
      [ents |-> {Entity("block", "app", ""), Entity("block", "svc", "x")}, repeat |-> TRUE,
       travs |-> {Trav("app", ""), Trav("svc", "x")}],
      [ents |-> {Entity("var", "var", "x"), Entity("var", "var", "y"),
                 Entity("block", "opt", "")}, repeat |-> FALSE,
       travs |-> {Trav("var", ""), Trav("var", "x"), Trav("var", "y"), Trav("opt", "")}],
      [ents |-> {Entity("attr", "p", ""), Entity("attr", "q", ""),
                 Entity("block", "app", "")}, repeat |-> FALSE,
       travs |-> {Trav("p", ""), Trav("q", ""), Trav("app", ""), Trav("seed", "")}] }

\* the declaration orders of the sub-collections of a vocabulary; a
\* vocabulary that repeats may declare the same block several times
Declarations(v) ==
    IF v.repeat THEN UNION {[1..n -> v.ents] : n \in 0..MaxBlocks}
    ELSE UNION {Orderings(S) : S \in SUBSET v.ents}

\* where a traversal can stand: entity i, nesting depth d (0: own attributes)
Places(ord, travs, depth) ==
    {pl \in (1..Len(ord)) \X (0..depth) \X travs :
        pl[2] = 0 \/ ord[pl[1]].kind = "block"}

MakeDoc(ord, sel, noDefault) ==
    [i \in 1..Len(ord) |->
        [ord[i] EXCEPT
            !.refs = {pl[3] : pl \in {x \in sel : x[1] = i /\ x[2] = 0}},
            !.nested = IF ord[i].kind = "block"
                       THEN [d \in 1..MaxDepth |->
                                {pl[3] : pl \in {x \in sel : x[1] = i /\ x[2] = d}}]
                       ELSE <<>>,
            !.hasDefault = i \notin noDefault]]

\* the state in which Load is entered
LoadEntry ==
    /\ caller = "Load"
    /\ allInfos = <<>>
    /\ deps = EmptyMap
    /\ pc = "Load"
    /\ keys = <<>> /\ inDegree = EmptyMap /\ queue = <<>> /\ sorted = <<>>
    /\ visited = EmptyMap /\ parent = EmptyMap /\ stack = <<>> /\ ki = 1
    /\ cycle = <<>> /\ cur = ""
    /\ sortedKeys = <<>> /\ err = NoError
    /\ pos = 1 /\ evalCtx = EmptyMap /\ varValues = EmptyMap /\ dst = ZeroDst

\* a document with traversals down to nesting depth "depth"
SomeDocumentOf(vocs, depth) ==
    \E v \in vocs : \E ord \in Declarations(v) :
       \E sel \in SubsetsUpTo(Places(ord, v.travs, depth), MaxRefs) :
          \E nd \in SUBSET {i \in 1..Len(ord) : ord[i].kind = "var"} :
             doc = MakeDoc(ord, sel, nd)

SomeDocument(depth) == SomeDocumentOf(Vocabularies, depth)

Init ==
    /\ \/ parseOK = TRUE /\ SomeDocument(MaxDepth)
       \/ parseOK = FALSE /\ doc = <<>>
    /\ run = 1 /\ first = NoFirst
    /\ userCtx = UserVariables /\ NoWrap
    /\ DefaultEnv
    /\ LoadEntry

Next ==
    \/ LoadParseError
    \/ LoadStart
    \/ TopoSortEntry
    \/ KahnStep
    \/ KahnExit
    \/ FindCycleNext
    \/ DfsVisit
    \/ DfsReturn
    \/ WalkStep
    \/ WalkFinish
    \/ ResolveVar
    \/ ResolveAttr
    \/ ResolveBlock
    \/ LoadReturn

Spec == Init /\ [][Next]_vars

\* ------------------------------------------- Load on shared published names
\* Documents in which an attribute is named like a labeled block type, or like
\* the reserved var namespace: the keys are distinct ("svc" and "svc.x", "var"
\* and "var.x"), the name they are published under is the same.
SharedVocabularies ==
    { [ents |-> {Entity("attr", "svc", ""), Entity("block", "svc", "x"),
                 Entity("block", "svc", "y")}, repeat |-> FALSE,
       travs |-> {Trav("svc", ""), Trav("svc", "x"), Trav("svc", "y")}],
      [ents |-> {Entity("attr", "var", ""), Entity("var", "var", "x"),
                 Entity("var", "var", "y")}, repeat |-> FALSE,
       travs |-> {Trav("var", ""), Trav("var", "x"), Trav("var", "y")}] }

InitShared ==
    /\ \/ parseOK = TRUE /\ SomeDocumentOf(SharedVocabularies, MaxDepth)
       \/ parseOK = FALSE /\ doc = <<>>
    /\ run = 1 /\ first = NoFirst
    /\ userCtx = UserVariables /\ NoWrap
    /\ DefaultEnv
    /\ LoadEntry

SpecShared == InitShared /\ [][Next]_vars

\* ------------------------------------------- Load on a call of env / env_or
\* Documents of one entity whose expression calls env or env_or (an
\* attribute, a var or a block), alone or followed by a block that reads it;
\* any process environment over EnvNames, strict or lenient.
EnvCalls ==
    {Call("env", n, "") : n \in EnvNames}
        \cup {Call("env_or", n, d) : n \in EnvNames, d \in Fallbacks}
Holders == {Entity("attr", "p", ""), Entity("var", "var", "x"), Entity("block", "app", "")}
ReaderOf(h) ==
    [Entity("block", "opt", "") EXCEPT
        !.refs = {Trav(h.typeName, h.label)}, !.nested = [d \in 1..MaxDepth |-> {}]]
Holding(h, c) ==
    [h EXCEPT !.call = c,
              !.nested = IF h.kind = "block" THEN [d \in 1..MaxDepth |-> {}] ELSE <<>>]

InitEnv ==
    /\ parseOK = TRUE
    /\ \E h \in Holders : \E c \in EnvCalls :
          doc \in {<<Holding(h, c)>>, <<ReaderOf(h), Holding(h, c)>>}
    /\ strictEnv \in BOOLEAN
    /\ osEnv \in Environments
    /\ run = 1 /\ first = NoFirst
    /\ userCtx = UserVariables /\ NoWrap
    /\ LoadEntry

NextEnv ==
    \/ LoadStart
    \/ TopoSortEntry
    \/ KahnStep
    \/ KahnExit
    \/ ResolveVar
    \/ ResolveAttr
    \/ ResolveBlock
    \/ LoadReturn

SpecEnv == InitEnv /\ [][NextEnv]_vars

\* --------------------------------------------------- Load on nested blocks
\* Documents with the block app, whose own attributes and nested blocks down
\* to depth NestDepth hold the traversals, declared before or after a labeled
\* block and a top-level attribute they may refer to.
NestTravs ==
    {Trav("svc", "x"), Trav("svc", ""), Trav("p", ""), Trav("seed", ""), Trav("app", "")}
NestOthers == {Entity("block", "svc", "x"), Entity("attr", "p", "")}

NestedDoc(ord, sel) ==
    [i \in 1..Len(ord) |->
        IF ord[i].typeName = "app"
        THEN [ord[i] EXCEPT
                 !.refs = {pl[2] : pl \in {x \in sel : x[1] = 0}},
                 !.nested = [d \in 1..NestDepth |-> {pl[2] : pl \in {x \in sel : x[1] = d}}]]
        ELSE ord[i]]

InitNested ==
    /\ parseOK = TRUE
    /\ \E S \in SUBSET NestOthers : \E ord \in Orderings(S \cup {Entity("block", "app", "")}) :
          \E sel \in SubsetsUpTo((0..NestDepth) \X NestTravs, MaxRefs) :
             doc = NestedDoc(ord, sel)
    /\ run = 1 /\ first = NoFirst
    /\ userCtx = UserVariables /\ NoWrap
    /\ DefaultEnv
    /\ LoadEntry

NextNested ==
    \/ LoadStart
    \/ TopoSortEntry
    \/ KahnStep
    \/ KahnExit
    \/ ResolveAttr
    \/ ResolveBlock
    \/ LoadReturn

SpecNested == InitNested /\ [][NextNested]_vars

\* ------------------------------------------- Load on a cycle and a failure
\* Documents with the var declarations x and y, which may refer to each
\* other, and up to MaxOthers further entities, of which three fail when they
\* are evaluated: a var without default, a block and an attribute that refer
\* to an undefined name.
MaxOthers == 2

CycleOthers ==
    { [Entity("var", "var", "z") EXCEPT !.hasDefault = FALSE],
      [Entity("block", "opt", "") EXCEPT !.refs = {Trav("undefined", "")}],
      [Entity("attr", "p", "") EXCEPT !.refs = {Trav("undefined", "")}],
      Entity("attr", "q", "") }

InitCycle ==
    /\ parseOK = TRUE
    /\ \E rx \in SUBSET {Trav("var", "y")} : \E ry \in SUBSET {Trav("var", "x")} :
         \E S \in SubsetsUpTo(CycleOthers, MaxOthers) :
            doc \in Orderings(S \cup {[Entity("var", "var", "x") EXCEPT !.refs = rx],
                                      [Entity("var", "var", "y") EXCEPT !.refs = ry]})
    /\ run = 1 /\ first = NoFirst
    /\ userCtx = UserVariables /\ NoWrap
    /\ DefaultEnv
    /\ LoadEntry

NextCycle ==
    \/ LoadStart
    \/ TopoSortEntry
    \/ KahnStep
    \/ KahnExit
    \/ FindCycleNext
    \/ DfsVisit
    \/ DfsReturn
    \/ WalkStep
    \/ WalkFinish
    \/ ResolveVar
    \/ ResolveAttr
    \/ ResolveBlock
    \/ LoadReturn

SpecCycle == InitCycle /\ [][NextCycle]_vars

\* ------------------------------------------ wrapBlockDiags called directly
\* A single, an optional or a labeled block whose header is on one of the
\* lines 1..MaxLine, and one to MaxDiags diagnostics of its decoding, each
\* without a Subject or with a Subject on the header's line or below it.
MaxLine == 3
MaxDiags == 2

WrapBlocks ==
    {HclBlock(b[1], b[2], line) :
        b \in {<<"app", "">>, <<"opt", "">>, <<"svc", "x">>}, line \in 1..MaxLine}
WrapDiagsOf(block) ==
    LET ds == {Diag(sub, det) :
                  sub \in {NoRange} \cup {Rng(l) : l \in block.defRange.line..MaxLine},
                  det \in {"", "detail"}}
    IN UNION {[1..n -> ds] : n \in 1..MaxDiags}

InitDiags ==
    /\ caller = "wrapBlockDiags"
    /\ parseOK = TRUE
    /\ doc = <<>>
    /\ run = 1 /\ first = NoFirst
    /\ userCtx = UserVariables
    /\ DefaultEnv
    /\ wBlock \in WrapBlocks
    /\ wDiags \in WrapDiagsOf(wBlock)
    /\ wrapped = <<>>
    /\ allInfos = <<>>
    /\ deps = EmptyMap
    /\ pc = "wrapBlockDiags"
    /\ keys = <<>> /\ inDegree = EmptyMap /\ queue = <<>> /\ sorted = <<>>
    /\ visited = EmptyMap /\ parent = EmptyMap /\ stack = <<>> /\ ki = 1
    /\ cycle = <<>> /\ cur = ""
    /\ sortedKeys = <<>> /\ err = NoError
    /\ pos = 1 /\ evalCtx = EmptyMap /\ varValues = EmptyMap /\ dst = ZeroDst

NextDiags == WrapBlockDiags

SpecDiags == InitDiags /\ [][NextDiags]_vars

\* ---------------------------------------------------- Load called twice
\* the document with the declarations at i and i + 1 exchanged
Swap(d, i) == [j \in 1..Len(d) |-> IF j = i THEN d[i + 1] ELSE IF j = i + 1 THEN d[i] ELSE d[j]]

\* A second call of Load, on a fresh destination, with the same document or
\* with two neighbouring declarations exchanged; the outcome of the first
\* call is kept for comparison.
Reload ==
    /\ pc \in {"done", "failed"}
    /\ run = 1
    /\ run' = 2
    /\ first' = [doc |-> doc, pc |-> pc, err |-> err, dst |-> dst, cycle |-> cycle,
                 sortedKeys |-> sortedKeys, deps |-> deps]
    /\ doc' \in {doc} \cup {Swap(doc, i) : i \in 1..(Len(doc) - 1)}
    /\ allInfos' = <<>>
    /\ deps' = EmptyMap
    /\ pc' = "Load"
    /\ keys' = <<>> /\ inDegree' = EmptyMap /\ queue' = <<>> /\ sorted' = <<>>
    /\ visited' = EmptyMap /\ parent' = EmptyMap /\ stack' = <<>> /\ ki' = 1
    /\ cycle' = <<>> /\ cur' = ""
    /\ sortedKeys' = <<>> /\ err' = NoError
    /\ pos' = 1 /\ evalCtx' = EmptyMap /\ varValues' = EmptyMap /\ dst' = ZeroDst
    /\ UNCHANGED <<caller, parseOK, strictEnv, osEnv, userCtx, wrapVars>>

\* documents without nested blocks
InitTwice ==
    /\ \/ parseOK = TRUE /\ SomeDocument(0)
       \/ parseOK = FALSE /\ doc = <<>>
    /\ run = 1 /\ first = NoFirst
    /\ userCtx = UserVariables /\ NoWrap
    /\ DefaultEnv
    /\ LoadEntry

NextTwice == Next \/ Reload

SpecTwice == InitTwice /\ [][NextTwice]_vars

\* ------------------------------------------------------------------ claims
\* the keys of the catalog and the graph restricted to them
CatalogKeys == {key(allInfos[i]) : i \in 1..Len(allInfos)}
CatalogDeps(k) == Get(deps, k) \cap CatalogKeys

\* the keys reachable from k along one or more edges between cataloged keys
RECURSIVE ReachFrom(_, _)
ReachFrom(frontier, seen) ==
    LET next == UNION {CatalogDeps(n) : n \in frontier} \ seen
    IN IF next = {} THEN seen ELSE ReachFrom(next, seen \cup next)
Reachable(k) == ReachFrom({k}, {})

HasCycle == \E k \in CatalogKeys : k \in Reachable(k)

Before(order, a, b) == \E i, j \in 1..Len(order) : i < j /\ order[i] = a /\ order[j] = b

\* C1: for an acyclic graph the order returned by topoSort places every key
\* strictly after every cataloged key of its dependency set, for every edge
C1_DepsFirst ==
    (pc = "returned" /\ ~HasCycle) =>
        \A k \in CatalogKeys : \A d \in CatalogDeps(k) : Before(sortedKeys, d, k)

\* a returned order over a chain of two edges
C1_Witness ==
    /\ pc = "returned" /\ ~HasCycle /\ err.kind = "none"
    /\ \E a, b, c \in CatalogKeys :
          /\ Cardinality({a, b, c}) = 3
          /\ b \in CatalogDeps(a) /\ c \in CatalogDeps(b)
          /\ sortedKeys = <<c, b, a>>

\* C2: for an acyclic graph topoSort returns no error and a permutation of
\* the distinct catalog keys, each exactly once
C2_Permutation ==
    (pc = "returned" /\ ~HasCycle) =>
        /\ err.kind = "none"
        /\ Range(sortedKeys) = CatalogKeys
        /\ Len(sortedKeys) = Cardinality(CatalogKeys)

\* a catalog that lists a key twice, sorted
C2_Witness ==
    /\ pc = "returned" /\ ~HasCycle
    /\ Len(allInfos) > Cardinality(CatalogKeys)
    /\ Len(sortedKeys) >= 2
    /\ \E k \in CatalogKeys : CatalogDeps(k) # {}

\* C4: the path of a CycleError has length at least 2 and is a closed loop
C4_ClosedLoop ==
    (pc = "returned" /\ err.kind = "cycle") =>
        /\ Len(cycle) >= 2
        /\ cycle[1] = cycle[Len(cycle)]

\* C3: the pass fails with a CycleError exactly when the dependency graph
\* restricted to the cataloged keys contains a cycle
C3_CycleIff ==
    (pc \in {"returned", "resolve", "done", "failed"} /\ parseOK) =>
        (err.kind = "cycle" <=> HasCycle)

\* Load refused two var declarations that refer to each other
C3_Witness ==
    /\ caller = "Load" /\ pc = "failed" /\ err.kind = "cycle"
    /\ Len(doc) = 2 /\ \A e \in Range(doc) : e.kind = "var"
    /\ HasCycle

\* ------------------------------------------------- the document and the pass
EntitiesOf(k) == {e \in Range(doc) : key(infoOf(e)) = k}
RefsOfKey(k) == UNION {AllRefs(e) : e \in EntitiesOf(k)}
CatalogTypes == {allInfos[i].typeName : i \in 1..Len(allInfos)}
KeysOfType(t) == {key(allInfos[i]) : i \in {j \in 1..Len(allInfos) : allInfos[j].typeName = t}}
LabelKey(t) == t.root \o "." \o t.seg

\* the keys resolved before the position of the loop
ResolvedKeys == {sortedKeys[j] : j \in 1..(pos - 1)}

\* the entity of key k is visible in the evaluation context
Published(k) ==
    \E e \in EntitiesOf(k) :
        IF e.kind = "var"
        THEN "var" \in DOMAIN evalCtx /\ \E p \in evalCtx["var"] : p[1] = e.label
        ELSE IF e.label # ""
        THEN e.typeName \in DOMAIN evalCtx /\ \E p \in evalCtx[e.typeName] : p[1] = e.label
        ELSE e.typeName \in DOMAIN evalCtx

\* the destination holds something decoded from the entity of key k
Written(k) ==
    \E e \in EntitiesOf(k) :
        IF e.kind = "var" THEN FALSE
        ELSE IF e.kind = "attr" THEN dst[attrFieldMap[k]] # {}
        ELSE IF BlockFields[e.typeName].isSlice
        THEN \E i \in 1..Len(dst[e.typeName]) : dst[e.typeName][i].label = e.label
        ELSE IF BlockFields[e.typeName].isPtr THEN dst[e.typeName] # <<>>
        ELSE dst[e.typeName] # Struct("", {})

\* the entities a traversal can denote: the labeled instance its second
\* segment names, or else every cataloged entity of its root type
Denoted(t) ==
    IF t.seg # "" /\ LabelKey(t) \in CatalogKeys THEN {LabelKey(t)} ELSE KeysOfType(t.root)

\* C5: when an entity is about to be evaluated, every other entity that one
\* of its references (own or nested) can denote is resolved and published
C5_DepsResolved ==
    (pc = "resolve" /\ pos <= Len(sortedKeys)) =>
        \A t \in RefsOfKey(sortedKeys[pos]) :
            t.root \in CatalogTypes =>
                \A d \in Denoted(t) \ {sortedKeys[pos]} : d \in ResolvedKeys /\ Published(d)

\* two destinations agree up to the element order of their repeated slots
SameUpToSliceOrder(d1, d2) ==
    \A slot \in DOMAIN d1 :
        IF slot \in DOMAIN BlockFields /\ BlockFields[slot].isSlice
        THEN Len(d1[slot]) = Len(d2[slot]) /\ Range(d1[slot]) = Range(d2[slot])
        ELSE d1[slot] = d2[slot]

DistinctKeys == Cardinality({key(infoOf(e)) : e \in Range(doc)}) = Len(doc)

\* C6: a document of distinct keys that loads, loaded again with two
\* neighbouring declarations exchanged, loads again and fills the destination
\* with the same values (repeated slots compared up to element order)
C6_OrderIndependent ==
    (/\ run = 2 /\ pc \in {"done", "failed"}
     /\ first.pc = "done" /\ doc # first.doc /\ DistinctKeys) =>
        pc = "done" /\ SameUpToSliceOrder(dst, first.dst)

\* C7: with T.L1 and T.L2 both cataloged, a reference T.L1 in an entity is an
\* edge to T.L1, and the entity has an edge to T.L2 or to the bare T only
\* through another reference of its own
C7_LabelOnly ==
    (pc # "Load" /\ caller = "Load") =>
        \A e \in Range(doc) : \A t \in AllRefs(e) :
            \A l2 \in {"x", "y"} :
                LET from == key(infoOf(e))
                    other == Trav(t.root, l2)
                IN (t.seg # "" /\ l2 # t.seg /\ {LabelKey(t), LabelKey(other)} \subseteq CatalogKeys) =>
                       /\ from # LabelKey(t) => LabelKey(t) \in Get(deps, from)
                       /\ LabelKey(other) \in Get(deps, from) => other \in RefsOfKey(from)
                       /\ t.root \in Get(deps, from) => Trav(t.root, "") \in RefsOfKey(from)

\* the block app refers to svc.x alone, next to svc.y
C7_Witness ==
    /\ pc = "resolve" /\ {"app", "svc.x", "svc.y"} \subseteq CatalogKeys
    /\ RefsOfKey("app") = {Trav("svc", "x")}
    /\ deps["app"] = {"svc.x"}

\* a reference of e that names e itself
IsSelfRef(e, t) == t.root = e.typeName /\ (e.label = "" \/ t.seg = e.label)

\* C8: no key depends on itself, and a document whose only references are
\* self-references never fails with a CycleError
C8_NoSelfEdge ==
    (pc # "Load" /\ caller = "Load") =>
        /\ \A k \in DOMAIN deps : k \notin deps[k]
        /\ (\A e \in Range(doc) : \A t \in AllRefs(e) : IsSelfRef(e, t)) => err.kind # "cycle"

\* a labeled block that refers to itself from a nested block was sorted
C8_Witness ==
    /\ pc = "resolve"
    /\ \E e \in Range(doc) :
          /\ e.label # ""
          /\ \E d \in 1..Len(e.nested) : \E t \in e.nested[d] : IsSelfRef(e, t)
    /\ \A e \in Range(doc) : \A t \in AllRefs(e) : IsSelfRef(e, t)

LoopErrors == {"missing default", "diagnostics"}

\* C9: a failure at position pos is returned at once: it is the error of the
\* key at pos, every earlier key was resolved, and no later key is
\* published or written
C9_FailFast ==
    err.kind \in LoopErrors =>
        /\ pc = "failed"
        /\ pos \in 1..Len(sortedKeys)
        /\ err.key = sortedKeys[pos]
        /\ \A j \in 1..(pos - 1) : Published(sortedKeys[j])
        /\ \A j \in (pos + 1)..Len(sortedKeys) :
              ~Published(sortedKeys[j]) /\ ~Written(sortedKeys[j])

\* the second of three keys failed
C9_Witness ==
    /\ pc = "failed" /\ err.kind = "diagnostics"
    /\ pos = 2 /\ Len(sortedKeys) = 3

VarLabels == {e.label : e \in Range(varBlocks)}
VarOf(l) == varBlocksByKey("var." \o l)
VarNamespace == IF "var" \in DOMAIN evalCtx THEN {p[1] : p \in evalCtx["var"]} ELSE {}

LabelEntries(env, T) == IF T \in DOMAIN env THEN env[T] ELSE {}
LabeledTypes == {e.typeName : e \in {b \in Range(userBlocks) : b.label # ""}}
\* the labels of type T resolved before position p of the loop
LabelsResolved(T, p) ==
    {e.label : e \in {b \in Range(userBlocks) :
                        /\ b.typeName = T /\ b.label # ""
                        /\ \E j \in 1..(p - 1) : sortedKeys[j] = key(infoOf(b))}}

\* C12: at every step of the resolve loop the binding of a labeled type holds
\* an entry for every label resolved so far, and a step keeps the entries of
\* the labels resolved before it as they were
C12_AdditiveInstances ==
    [][pc = "resolve" =>
         \A T \in LabeledTypes :
            /\ \A l \in LabelsResolved(T, pos') :
                   \E p \in LabelEntries(evalCtx', T) : p[1] = l
            /\ \A p \in LabelEntries(evalCtx, T) :
                   p[1] \in LabelsResolved(T, pos) => p \in LabelEntries(evalCtx', T)]_vars

\* the labels of the var declarations resolved before position p of the loop
VarsResolved(p) ==
    {e.label : e \in {b \in Range(varBlocks) :
                        \E j \in 1..(p - 1) : sortedKeys[j] = key(infoOf(b))}}

\* C13: a step that resolves a var leaves the name var bound to an object
\* whose keys are the labels of the vars resolved so far, the earlier ones
\* with the values they were given, and with one key more than before
C13_VarNamespace ==
    [][(pc = "resolve" /\ pos' = pos + 1 /\ hasVarBlock(sortedKeys[pos])) =>
         /\ "var" \in DOMAIN evalCtx'
         /\ {p[1] : p \in evalCtx'["var"]} = VarsResolved(pos')
         /\ evalCtx'["var"] = ObjectVal(varValues')
         /\ \A l \in VarsResolved(pos) : varValues'[l] = varValues[l]
         /\ Cardinality(evalCtx'["var"]) = Cardinality(VarsResolved(pos)) + 1]_vars

\* two vars are resolved and both are in the namespace
C13_Witness ==
    /\ pc = "done" /\ Cardinality(VarsResolved(pos)) = 2
    /\ Cardinality(VarNamespace) = 2

\* what was computed for the resolved entity of key k: the value of a var or
\* attribute, the decoded fields of a block
ResolvedValue(k) ==
    IF hasVarBlock(k) THEN varValues[varBlocksByKey(k).label]
    ELSE IF k \in attrNames THEN dst[attrFieldMap[k]]
    ELSE LET b == blocksByKey(k)[1]
             slot == dst[b.typeName]
         IN IF BlockFields[b.typeName].isSlice
            THEN slot[CHOOSE i \in 1..Len(slot) : slot[i].label = b.label].fields
            ELSE IF BlockFields[b.typeName].isPtr THEN slot[1].fields
            ELSE slot.fields

DocKeys == {key(infoOf(e)) : e \in Range(doc)}
\* the references var.X of entity e to another, declared var
VarRefs(e) ==
    {t \in AllRefs(e) : /\ t.root = "var" /\ t.seg # ""
                        /\ LabelKey(t) \in DocKeys /\ LabelKey(t) # key(infoOf(e))}
\* every reference of the document is a reference var.X to another declared
\* var, every var has a default and the references form no cycle
VarChainOnly ==
    /\ parseOK /\ ~HasCycle
    /\ \A e \in Range(doc) : AllRefs(e) = VarRefs(e) /\ (e.kind = "var" => e.hasDefault)

\* C14: a reference var.X makes the entity depend on the var labeled X and on
\* no other var; the referenced var is resolved first, the entity reads the
\* value that var was given, and a document of such references only loads in
\* every declaration order
C14_VarChain ==
    /\ (caller = "Load" /\ allInfos # <<>>) =>
          \A e \in Range(doc) :
             LET k == key(infoOf(e))
             IN /\ {LabelKey(t) : t \in VarRefs(e)} \subseteq Get(deps, k)
                /\ \A d \in Get(deps, k) :
                      hasVarBlock(d) => \E t \in RefsOfKey(k) : d = LabelKey(t)
    /\ pc \in {"resolve", "done", "failed"} =>
          \A j \in 1..(pos - 1) : \A e \in EntitiesOf(sortedKeys[j]) : \A t \in VarRefs(e) :
             /\ Before(sortedKeys, LabelKey(t), sortedKeys[j])
             /\ <<TravName(t), varValues[t.seg]>> \in ResolvedValue(sortedKeys[j])
    /\ pc = "failed" => ~VarChainOnly

\* the chain opt -> var.y -> var.x, declared in that order, is loaded: var.y
\* holds the value of var.x and opt the value of var.y
C14_Witness ==
    /\ pc = "done" /\ Len(doc) = 3
    /\ doc[1].typeName = "opt" /\ doc[1].refs = {Trav("var", "y")}
    /\ doc[2].label = "y" /\ doc[2].refs = {Trav("var", "x")}
    /\ doc[3].label = "x"
    /\ sortedKeys = <<"var.x", "var.y", "opt">>
    /\ <<"var.x", varValues["x"]>> \in varValues["y"]
    /\ <<"var.y", varValues["y"]>> \in dst["opt"][1].fields

\* the references of entity e to another, declared top-level attribute
AttrRefs(e) ==
    {t \in AllRefs(e) : /\ t.seg = "" /\ t.root # key(infoOf(e))
                        /\ \E a \in Range(doc) : a.kind = "attr" /\ a.typeName = t.root}
\* every reference of the document is a reference to another declared
\* attribute, the references form no cycle and every var has a default
AttrChainOnly ==
    /\ parseOK /\ ~HasCycle
    /\ \A e \in Range(doc) : AllRefs(e) = AttrRefs(e) /\ (e.kind = "var" => e.hasDefault)

\* C15: an attribute or block that refers to a top-level attribute is resolved
\* after it and holds its published value, which is the value written to the
\* attribute's slot (so a value read through two attributes holds both), and
\* a document of such references only loads in every declaration order
C15_AttrChain ==
    /\ pc \in {"resolve", "done", "failed"} =>
          \A j \in 1..(pos - 1) : \A e \in EntitiesOf(sortedKeys[j]) :
             /\ e.kind = "attr" => /\ e.typeName \in DOMAIN evalCtx
                                   /\ evalCtx[e.typeName] = dst[attrFieldMap[e.typeName]]
             /\ \A t \in AttrRefs(e) :
                   /\ Before(sortedKeys, t.root, sortedKeys[j])
                   /\ <<t.root, evalCtx[t.root]>> \in ResolvedValue(sortedKeys[j])
    /\ pc = "failed" => ~AttrChainOnly

\* the chain app -> p -> q, declared in that order, is loaded: p holds the
\* value of q and the field of app holds that value of p
C15_Witness ==
    /\ pc = "done" /\ Len(doc) = 3
    /\ doc[1].typeName = "app" /\ AllRefs(doc[1]) = {Trav("p", "")}
    /\ doc[2].typeName = "p" /\ doc[2].refs = {Trav("q", "")}
    /\ doc[3].typeName = "q"
    /\ sortedKeys = <<"q", "p", "app">>
    /\ <<"q", evalCtx["q"]>> \in evalCtx["p"]
    /\ <<"p", evalCtx["p"]>> \in dst["app"].fields

\* the entity of the document whose expression holds a call
CallHolder == CHOOSE e \in Range(doc) : e.call # NoCall
HolderKey == key(infoOf(CallHolder))

\* C16: env(name) gives the value of a set variable in both modes; for an
\* unset variable strict mode fails the pass with diagnostics that name the
\* variable, lenient mode gives the empty string and the pass succeeds
C16_EnvStrictLenient ==
    (pc \in {"done", "failed"} /\ \E e \in Range(doc) : e.call.fn = "env") =>
        LET r == osEnv[CallHolder.call.name]
        IN IF r.ok
           THEN pc = "done" /\ <<"()", StringVal(r.val)>> \in ResolvedValue(HolderKey)
           ELSE IF strictEnv
           THEN /\ pc = "failed"
                /\ err = [kind |-> "diagnostics", key |-> HolderKey,
                           detail |-> CallHolder.call.name]
                /\ ~Published(HolderKey)
           ELSE pc = "done" /\ <<"()", StringVal("")>> \in ResolvedValue(HolderKey)

\* strict mode failed on an unset variable while the other variable is set
C16_Witness ==
    /\ pc = "failed" /\ strictEnv /\ err.detail = "A"
    /\ ~osEnv["A"].ok /\ osEnv["B"].ok

\* C17: env_or(name, default) never fails the pass, strict or lenient; it
\* gives the value of a set variable, the empty value included, and the
\* default when the variable is unset
C17_EnvOrNeverFails ==
    (pc \in {"done", "failed"} /\ \E e \in Range(doc) : e.call.fn = "env_or") =>
        LET r == osEnv[CallHolder.call.name]
        IN /\ pc = "done"
           /\ <<"()", StringVal(IF r.ok THEN r.val ELSE CallHolder.call.default)>>
                 \in ResolvedValue(HolderKey)

\* in strict mode a variable set to the empty string was read with a
\* default that is not empty
C17_Witness ==
    /\ pc = "done" /\ strictEnv
    /\ \E e \in Range(doc) :
          /\ e.call.fn = "env_or" /\ e.call.default = "d"
          /\ osEnv[e.call.name] = [ok |-> TRUE, val |-> ""]
          /\ <<"()", StringVal("")>> \in ResolvedValue(key(infoOf(e)))

\* the second call of Load has returned, on the document of the first call
SameInputTwice == run = 2 /\ pc \in {"done", "failed"} /\ doc = first.doc

\* C18: two calls of Load on the same source, destination shape, options and
\* environment compute the same dependency graph and the same resolution
\* order and end alike: the same destination when they succeed, the same
\* error, with the same cycle path, when they fail
C18_Deterministic ==
    SameInputTwice =>
        /\ deps = first.deps
        /\ sortedKeys = first.sortedKeys
        /\ pc = first.pc
        /\ pc = "done" => dst = first.dst
        /\ pc = "failed" => err = first.err /\ cycle = first.cycle

\* the keys of the document's entities in the order of their declaration
DocumentOrder == UniqueKeys([i \in 1..Len(doc) |-> infoOf(doc[i])], <<>>)

\* no entity of the document depends on another
NoDependencies == \A k \in CatalogKeys : CatalogDeps(k) = {}

\* C19: when no entity depends on another, the resolution order is the order
\* of declaration in the document, whatever the kinds of the entities
C19_DocumentOrder ==
    (pc \in {"resolve", "done", "failed"} /\ caller = "Load" /\ err.kind \notin {"parse", "cycle"}
     /\ NoDependencies) =>
        sortedKeys = DocumentOrder

\* what the environment env holds for the entity e: its entry in the var
\* namespace, its label entry in the binding of its type, or the binding of
\* its name
Binding(env, e) ==
    IF e.kind = "var" THEN {p \in Get(env, "var") : p[1] = e.label}
    ELSE IF e.label # "" THEN {p \in Get(env, e.typeName) : p[1] = e.label}
    ELSE Get(env, e.typeName)

\* C20: a step of the resolve loop leaves what the environment holds for
\* every entity resolved before it as it was: the binding of an attribute or
\* unlabeled block name, a label entry of a labeled type, an entry of the var
\* namespace, also when an attribute is named like a block type or like var
C20_PublishedImmutable ==
    [][pc = "resolve" =>
         \A j \in 1..(pos - 1) : \A e \in EntitiesOf(sortedKeys[j]) :
             Binding(evalCtx', e) = Binding(evalCtx, e)]_vars

\* C21: the path of a CycleError is a walk along dependency edges: each
\* element depends on the one after it, and no key occurs twice before the
\* closing element
C21_OrderedWalk ==
    (pc = "returned" /\ err.kind = "cycle") =>
        /\ \A i \in 1..(Len(cycle) - 1) : cycle[i + 1] \in Get(deps, cycle[i])
        /\ \A i, j \in 1..(Len(cycle) - 1) : cycle[i] = cycle[j] => i = j

\* C22: every edge of the graph that buildDependencyGraph returns has the key
\* of a cataloged entity as its target
C22_TargetsCataloged ==
    (caller = "Load" /\ pc # "Load") =>
        \A s \in DOMAIN deps : deps[s] \subseteq CatalogKeys

\* C23: a reference in a nested block of a top-level entity, at any depth, is
\* an edge from that entity's key to the key the reference denotes, and the
\* source keys of the graph are exactly the keys of the catalog
C23_NestedToAncestor ==
    (caller = "Load" /\ pc # "Load") =>
        /\ DOMAIN deps = CatalogKeys
        /\ \A e \in Range(doc) : \A d \in 1..Len(e.nested) : \A t \in e.nested[d] :
               (t.root \in CatalogTypes /\ TargetKey(t, allInfos) # key(infoOf(e))) =>
                   TargetKey(t, allInfos) \in deps[key(infoOf(e))]

\* app, declared first, refers to svc.x only from a block nested at depth 2,
\* and the pass resolved svc.x before it
C23_Witness ==
    /\ pc = "done" /\ Len(doc) >= 2 /\ doc[1].typeName = "app"
    /\ Len(doc[1].nested) >= 2
    /\ Trav("svc", "x") \in doc[1].nested[2]
    /\ Trav("svc", "x") \notin doc[1].refs \cup doc[1].nested[1]
    /\ "svc.x" \in deps["app"]
    /\ sortedKeys[1] = "svc.x"

\* the traversals of the entities of key k whose root names a cataloged type
KnownRefs(k) == {t \in RefsOfKey(k) : t.root \in CatalogTypes}

\* C24: a reference whose root is the type name of no cataloged entity adds
\* no edge: every edge comes from a reference with a cataloged root, a key
\* with no such reference has no dependencies and is on no reported cycle,
\* and such a reference decides only the evaluation: in a document of
\* distinct keys a seeded name is read, an undefined one fails the pass at
\* that entity
C24_UnknownRootNoEdge ==
    (caller = "Load" /\ pc # "Load") =>
        /\ \A s \in DOMAIN deps : \A tgt \in deps[s] :
               \E t \in KnownRefs(s) : tgt \in {t.root, LabelKey(t)}
        /\ \A s \in CatalogKeys :
               KnownRefs(s) = {} => (deps[s] = {} /\ s \notin Range(cycle))
        /\ (sortedKeys # <<>> /\ DistinctKeys) =>
               LET types == CatalogTypes
               IN \A j \in 1..Len(sortedKeys) : \A t \in RefsOfKey(sortedKeys[j]) :
                      t.root \notin types =>
                          IF t.root \in DOMAIN UserVariables
                          THEN (j < pos /\ ~hasVarBlock(sortedKeys[j])) =>
                                   <<t.root, UserVariables[t.root]>> \in ResolvedValue(sortedKeys[j])
                          ELSE /\ j >= pos
                               /\ (j = pos /\ pc \in {"done", "failed"}) =>
                                      (pc = "failed" /\ err.key = sortedKeys[j])

\* an attribute declared first reads the seeded variable and nothing else,
\* has no edge, and was resolved first; a block that refers to an undefined
\* name then failed the pass
C24_Witness ==
    /\ pc = "failed" /\ err.kind = "diagnostics" /\ pos = 2 /\ Len(doc) = 2
    /\ doc[1].kind = "attr" /\ doc[1].refs = {Trav("seed", "")}
    /\ deps[doc[1].typeName] = {}
    /\ \E t \in AllRefs(doc[2]) : t.root \notin CatalogTypes \cup DOMAIN UserVariables
    /\ deps[key(infoOf(doc[2]))] = {}

\* C25: when the dependency graph has a cycle the pass never enters the
\* resolve loop: nothing is evaluated, written or published, and the pass
\* fails with the CycleError, whatever else the document holds
C25_CycleFirst ==
    (caller = "Load" /\ pc # "Load" /\ HasCycle) =>
        /\ pc \notin {"resolve", "done"}
        /\ pos = 1
        /\ dst = ZeroDst
        /\ evalCtx = EmptyMap
        /\ varValues = EmptyMap
        /\ pc = "failed" => err.kind = "cycle"

\* x and y refer to each other; the document starts with a var without
\* default and holds a block that refers to an undefined name; the pass
\* failed with the CycleError
C25_Witness ==
    /\ caller = "Load" /\ pc = "failed" /\ err.kind = "cycle" /\ HasCycle
    /\ Len(doc) = 4
    /\ doc[1].kind = "var" /\ ~doc[1].hasDefault
    /\ \E i \in 2..4 : doc[i].kind = "block" /\ Trav("undefined", "") \in doc[i].refs

\* C26: every diagnostic that wrapBlockDiags returns names the type of the
\* enclosing block, its label when it has one, and the location of the block
\* header, whether or not the diagnostic had a Subject of its own
C26_BlockContext ==
    (caller = "wrapBlockDiags" /\ pc = "returned") =>
        /\ Len(wrapped) = Len(wDiags)
        /\ \A i \in 1..Len(wrapped) :
               /\ wrapped[i].note.typeName = wBlock.typeName
               /\ wrapped[i].note.label = wBlock.label
               /\ wrapped[i].note.loc = wBlock.defRange

\* C27: no step of a pass changes the Variables of the caller's EvalContext,
\* and every pass, also a second one with the same caller context, enters
\* the resolve loop with exactly the caller-supplied bindings in its own
\* environment
C27_FreshContext ==
    [][/\ userCtx' = userCtx
       /\ (pc # "resolve" /\ pc' = "resolve") => evalCtx' = UserVariables]_vars

\* a second pass on the same document and caller context has ended; both
\* passes published names of their own and the caller's bindings are as
\* they were
C27_Witness ==
    /\ run = 2 /\ pc = "done" /\ first.pc = "done" /\ doc = first.doc
    /\ DOMAIN evalCtx \ DOMAIN UserVariables # {}
    /\ userCtx = UserVariables

\* C28: topoSort terminates on every catalog and graph: no key is dequeued
\* twice, and the call returns, with an order or with a CycleError
C28_Terminates ==
    /\ [](\A i, j \in 1..Len(sorted) : sorted[i] = sorted[j] => i = j)
    /\ <>(pc = "returned" /\ err.kind \in {"none", "cycle"})

\* the depth-first search returned from a call without a cycle before it
\* found one on another key, walked the parent pointers, and topoSort
\* returned the CycleError
C28_Witness ==
    /\ caller = "topoSort" /\ pc = "returned" /\ err.kind = "cycle"
    /\ \E n \in DOMAIN visited : visited[n] = 2
    /\ Len(cycle) >= 3

\* the keys that occur in the dependency graph, as sources or as targets
GraphKeys == DOMAIN deps \cup UNION {deps[k] : k \in DOMAIN deps}

\* C29: the path of a CycleError is never the placeholder: its elements are
\* keys of the dependency graph, and they lie on one cycle of it, each but
\* the last depending on the next and the last on the first
C29_ActualCycle ==
    (pc \in {"returned", "failed"} /\ err.kind = "cycle") =>
        /\ cycle # <<"unknown cycle">>
        /\ Len(cycle) >= 2
        /\ Range(cycle) \subseteq GraphKeys
        /\ \A i \in 1..(Len(cycle) - 2) : cycle[i + 1] \in Get(deps, cycle[i])
        /\ cycle[1] \in Get(deps, cycle[Len(cycle)])

\* topoSort returned a CycleError over three keys for a graph whose keys are
\* all on the cycle
C29_Witness ==
    /\ caller = "topoSort" /\ pc = "returned" /\ err.kind = "cycle"
    /\ Cardinality(Range(cycle)) = 3
    /\ Range(cycle) = CatalogKeys

\* the position of key k in the resolution order
OrderIndex(k) == CHOOSE i \in 1..Len(sortedKeys) : sortedKeys[i] = k

\* the slots of the destination that are slices
SliceTypes == {t \in DOMAIN BlockFields : BlockFields[t].isSlice}

\* the labeled blocks of type t, in declaration order
LabeledOf(t) == SelectSeq(userBlocks, LAMBDA e : e.typeName = t /\ e.label # "")

\* C30: after a successful pass the labeled instances of a repeated slot
\* stand in the slice in the order of their keys in the resolution order:
\* every declared instance is there once, no element stands before one whose
\* key was resolved earlier, and an instance declared before one it depends
\* on stands after it
C30_SliceInResolutionOrder ==
    (caller = "Load" /\ pc = "done") =>
        \A t \in SliceTypes :
            LET sl == dst[t]
                decl == LabeledOf(t)
            IN decl # <<>> =>
                /\ Len(sl) = Len(decl)
                /\ \A e \in Range(decl) : \E i \in 1..Len(sl) : sl[i].label = e.label
                /\ \A i, j \in 1..Len(sl) :
                       i < j => OrderIndex(t \o "." \o sl[i].label) <= OrderIndex(t \o "." \o sl[j].label)
                /\ \A a, b \in 1..Len(decl) :
                       (a < b /\ key(infoOf(decl[b])) \in Get(deps, key(infoOf(decl[a])))) =>
                           \E i, j \in 1..Len(sl) :
                               i < j /\ sl[i].label = decl[b].label /\ sl[j].label = decl[a].label

\* svc "x" is declared before svc "y" and refers to it: the slice holds y
\* before x
C30_Witness ==
    /\ caller = "Load" /\ pc = "done" /\ Len(doc) = 2
    /\ doc[1].typeName = "svc" /\ doc[1].label = "x"
    /\ doc[2].typeName = "svc" /\ doc[2].label = "y"
    /\ Trav("svc", "y") \in doc[1].refs
    /\ Len(dst["svc"]) = 2
    /\ dst["svc"][1].label = "y" /\ dst["svc"][2].label = "x"

====
